---- MODULE Spec2Model ----
(***************************************************************************)
(* travlyng backend: the travel-plan aggregate (travel_plans.rs), the leaf *)
(* entity stores (places.rs, accommodations.rs, restaurants.rs), the       *)
(* cross-entity search (search.rs) and the Mutex<Connection> they share    *)
(* (db.rs).                                                                *)
(*                                                                         *)
(* A request is served by a worker.  Its handler first blocks in           *)
(* data.db.lock(), then issues its SQL statements one after the other      *)
(* while it owns the guard, builds the HTTP response and drops the guard   *)
(* when it returns.  One action models the lock() together with the        *)
(* handler's first statement; a handler with more statements has one more  *)
(* action per statement; Return is the return (guard drop).                *)
(***************************************************************************)
EXTENDS Integers, Sequences, FiniteSets, TLC

(* ----------------------------- bounds ---------------------------------- *)
NumProcs == 2        \* concurrent workers
MaxPlanId == 2       \* largest rowid of travel_plans the model lets storage assign
MaxItemId == 2       \* largest rowid of plan_items the model lets storage assign
MaxEntityId == 2     \* largest rowid of places / accommodations / restaurants

Procs == 1..NumProcs
PlanIds == 1..MaxPlanId
ItemIds == 1..MaxItemId
EntityIds == 1..MaxEntityId
Kinds == {"place", "accommodation", "restaurant"}

(* Option<T>: None is the empty sequence, Some(x) the one-element one.     *)
None == << >>
Some(x) == << x >>

Max(S) == CHOOSE m \in S : \A x \in S : x <= m

(* ------------------------------ inputs --------------------------------- *)
(* JSON bodies of POST/PUT /plans: a TravelPlan, whose id and items the    *)
(* client may or may not supply.                                           *)
PlanItemRequests ==
    { [entity_type |-> "place", entity_id |-> 7,
       visit_date |-> None, notes |-> Some("see fountain")],
      [entity_type |-> "activity", entity_id |-> 10,
       visit_date |-> Some("2024-01-02"), notes |-> None] }

TravelPlanBodies ==
    { [id |-> None, name |-> "Trip", start_date |-> Some("2024-01-01"),
       end_date |-> Some("2024-01-05"), items |-> None],
      [id |-> Some(9), name |-> "Tour", start_date |-> None,
       end_date |-> None, items |-> Some(<< >>)] }

(* ------------------------------- state --------------------------------- *)
VARIABLES
    travel_plans,   \* table travel_plans: rowid -> [name, start_date, end_date]
    plan_items,     \* table plan_items: rowid -> [plan_id, entity_type, entity_id, visit_date, notes]
    tables,         \* places, accommodations, restaurants: kind -> (rowid -> [name, description, location])
    holder,         \* owner of the MutexGuard<Connection>, 0 when the mutex is free
    poisoned,       \* the mutex's poison flag
    pc,             \* per worker: "idle", "lock", a later statement of its handler, "ret", "panic"
    op,             \* per worker: the request its handler is serving
    acc,            \* per worker: the handler's local accumulator (plan, plans, results)
    resp,           \* per worker: the HTTP response the handler has built
    deleted,        \* history: plan id -> number of items the plan had when delete_plan
                    \* removed it, for the ids deleted and not assigned again since;
                    \* Reassigned while the add_plan is in flight that gave the id
                    \* of a plan deleted with items to a new plan
    last_insert_rowid,
                    \* the connection's last insert rowid: the rowid of its most recent
                    \* successful INSERT, 0 before the first
    added           \* history: the rowids of the stored items in the order of their inserts

vars == << travel_plans, plan_items, tables, holder, poisoned, pc, op, acc, resp, deleted, added, last_insert_rowid >>

Free == 0
NoOp == [kind |-> "none", plan_id |-> 0, item_id |-> 0, body |-> None]
NoFault == "none"
NoResp == [status |-> 0, header |-> None, body |-> None]

Request(kind, plan_id, item_id, body) ==
    [kind |-> kind, plan_id |-> plan_id, item_id |-> item_id, body |-> body]

(* HttpResponse::Ok().json(x), ::Created().json(x), ::NotFound().finish() ...*)
Json(status, x) == [status |-> status, header |-> None, body |-> Some(x)]
Empty(status) == [status |-> status, header |-> None, body |-> None]
Ok == 200
Created == 201
NoContent == 204
NotFound == 404
InternalServerError == 500

(* --------------------------- storage layer ----------------------------- *)
(* SQLite gives an inserted row the rowid one larger than the largest      *)
(* rowid in the table (1 in an empty table); last_insert_rowid() reads it. *)
NextRowid(table) ==
    IF DOMAIN table = {} THEN 1 ELSE Max(DOMAIN table) + 1

(* The scan run from the largest rowid down.                               *)
RECURSIVE RowidsDescending(_)
RowidsDescending(S) ==
    IF S = {} THEN << >>
    ELSE LET m == CHOOSE x \in S : \A y \in S : x >= y
         IN  << m >> \o RowidsDescending(S \ {m})

(* Rows of a table in storage-natural order: ascending rowid.              *)
RECURSIVE RowidsAscending(_)
RowidsAscending(S) ==
    IF S = {} THEN << >>
    ELSE LET m == CHOOSE x \in S : \A y \in S : x <= y
         IN  << m >> \o RowidsAscending(S \ {m})

(* The elements of seq that are in S, in their order.                      *)
Keep(seq, S) == SelectSeq(seq, LAMBDA i : i \in S)

(* The insert order of the rows of `items`: the rows known keep their      *)
(* order, the rows new to the table come last.                             *)
InsertionOrder(items) ==
    Keep(added, DOMAIN items)
        \o RowidsAscending(DOMAIN items \ {added[k] : k \in 1..Len(added)})

(* The history mark of a plan id that storage has assigned again after a   *)
(* delete that removed items with it.                                      *)
Reassigned == -1

(* The schema's constraint on plan_items.plan_id:                          *)
(*   FOREIGN KEY (plan_id) REFERENCES travel_plans(id) ON DELETE CASCADE   *)
ForeignKeyHolds(plan_id) == plan_id \in DOMAIN travel_plans

(* The foreign key without its ON DELETE CASCADE.                          *)
OnDeleteNoAction(parents) == plan_items

OnDeleteCascade(parents) ==
    [i \in {j \in DOMAIN plan_items : plan_items[j].plan_id \notin parents} |-> plan_items[i]]

(* PlanItem as serialised: the row with its id.                            *)
PlanItem(id, plan_id, r) ==
    [id |-> Some(id), plan_id |-> plan_id, entity_type |-> r.entity_type,
     entity_id |-> r.entity_id, visit_date |-> r.visit_date, notes |-> r.notes]

(* The INSERT/UPDATE parameters with visit_date left unbound.              *)
ItemRow_without_visit_date(plan_id, r) ==
    [plan_id |-> plan_id, entity_type |-> r.entity_type,
     entity_id |-> r.entity_id, visit_date |-> None, notes |-> r.notes]

(* The INSERT/UPDATE parameters with notes left unbound.                   *)
ItemRow_without_notes(plan_id, r) ==
    [plan_id |-> plan_id, entity_type |-> r.entity_type,
     entity_id |-> r.entity_id, visit_date |-> r.visit_date, notes |-> None]

ItemRow(plan_id, r) ==
    [plan_id |-> plan_id, entity_type |-> r.entity_type,
     entity_id |-> r.entity_id, visit_date |-> r.visit_date, notes |-> r.notes]

(* The INSERT/UPDATE parameters of a plan with end_date left unbound.      *)
PlanRow_without_end_date(b) == [name |-> b.name, start_date |-> b.start_date, end_date |-> None]

PlanRow(b) == [name |-> b.name, start_date |-> b.start_date, end_date |-> b.end_date]

(* ------------------------------ inputs --------------------------------- *)
(* Text that search reads is a sequence of characters.                     *)
PlaceBodies ==
    { [id |-> None, name |-> << "L", "a" >>, description |-> None,
       location |-> Some("north")],
      [id |-> Some(5), name |-> << "b" >>, description |-> Some(<< "l", "a", "b" >>),
       location |-> None] }

Queries == { << >>, << "l", "a" >>, << "b" >>, << "_" >> }

(* The executions of one statement that the storage layer can answer with  *)
(* an error: conn.prepare, conn.execute, conn.query_row, or the read of a  *)
(* row of a query_map iterator.                                            *)
NoFaults == { NoFault }
StorageFaults == { NoFault, "prepare", "execute", "query_row", "row" }

BadRows(F, ids) == IF "row" \in F THEN SUBSET ids ELSE { {} }

(* ------------------------------ workers -------------------------------- *)
Init ==
    /\ travel_plans = << >>
    /\ plan_items = << >>
    /\ tables = [k \in Kinds |-> << >>]
    /\ holder = Free
    /\ poisoned = FALSE
    /\ pc = [p \in Procs |-> "idle"]
    /\ op = [p \in Procs |-> NoOp]
    /\ acc = [p \in Procs |-> None]
    /\ resp = [p \in Procs |-> NoResp]
    /\ deleted = << >>
    /\ added = << >>
    /\ last_insert_rowid = 0

(* A request is routed to a handler, which reaches data.db.lock().         *)
Call(p) ==
    /\ pc[p] = "idle"
    /\ pc' = [pc EXCEPT ![p] = "lock"]
    /\ UNCHANGED << travel_plans, plan_items, tables, holder, poisoned, op, acc, resp, deleted, added, last_insert_rowid >>

(* A lock() that does not block on a living guard.                         *)
Lock_without_wait(p) ==
    /\ pc[p] = "lock"
    /\ ~poisoned

(* let conn = data.db.lock().unwrap(): blocks while another guard lives,   *)
(* and returns the guard when the mutex is not poisoned.                   *)
Lock(p) ==
    /\ pc[p] = "lock"
    /\ holder = Free
    /\ ~poisoned

(* lock() on a poisoned mutex returns Err(PoisonError) and unwrap() panics.*)
lock_poisoned(p) ==
    /\ pc[p] = "lock"
    /\ holder = Free
    /\ poisoned
    /\ pc' = [pc EXCEPT ![p] = "panic"]
    /\ UNCHANGED << travel_plans, plan_items, tables, holder, poisoned, op, acc, resp, deleted, added, last_insert_rowid >>

(* The handler returns (or its panic has unwound): the response, if any,   *)
(* goes out and the guard, if still held, is dropped.                      *)
Return(p) ==
    /\ pc[p] \in {"ret", "panic"}
    /\ pc' = [pc EXCEPT ![p] = "idle"]
    /\ holder' = IF holder = p THEN Free ELSE holder
    /\ op' = [op EXCEPT ![p] = NoOp]
    /\ acc' = [acc EXCEPT ![p] = None]
    /\ resp' = [resp EXCEPT ![p] = NoResp]
    /\ deleted' = IF op[p].kind = "add_plan"
                  THEN [i \in {j \in DOMAIN deleted : deleted[j] # Reassigned} |-> deleted[i]]
                  ELSE deleted
    /\ UNCHANGED << travel_plans, plan_items, tables, poisoned, added, last_insert_rowid >>

(* The handler has built its response and is about to return.              *)
Respond(p, request, response) ==
    /\ pc' = [pc EXCEPT ![p] = "ret"]
    /\ op' = [op EXCEPT ![p] = request]
    /\ resp' = [resp EXCEPT ![p] = response]

(* The handler goes on to its next statement with `local` in hand.         *)
Continue(p, request, next, local) ==
    /\ pc' = [pc EXCEPT ![p] = next]
    /\ op' = [op EXCEPT ![p] = request]
    /\ acc' = [acc EXCEPT ![p] = local]
    /\ UNCHANGED resp

(* An unwrap() of an Err while the guard is alive: the unwinding drops the *)
(* guard, which marks the mutex poisoned; no response is built.            *)
Panic(p, request) ==
    /\ pc' = [pc EXCEPT ![p] = "panic"]
    /\ op' = [op EXCEPT ![p] = request]
    /\ holder' = Free
    /\ poisoned' = TRUE
    /\ UNCHANGED resp

(* The DELETE without its WHERE clause.                                    *)
PlanRowsWhereId_all(plan_id) == DOMAIN travel_plans

(* ------------------------- travel_plans.rs ----------------------------- *)
(* The comparison of the WHERE clause inverted.                            *)
PlanRowsWhereId_not(plan_id) == {i \in DOMAIN travel_plans : i # plan_id}

(* WHERE id = ?1 on travel_plans.                                          *)
PlanRowsWhereId(plan_id) == {i \in DOMAIN travel_plans : i = plan_id}

(* The items SELECT without its WHERE clause.                              *)
ItemRowsWherePlanId_all(plan_id) == DOMAIN plan_items

(* WHERE plan_id = ?1 on plan_items.                                       *)
ItemRowsWherePlanId(plan_id) ==
    {i \in DOMAIN plan_items : plan_items[i].plan_id = plan_id}

(* The dual-key WHERE clause with one conjunct only.                       *)
ItemRowsWhereId(item_id, plan_id) ==
    {i \in DOMAIN plan_items : i = item_id}

ItemRowsOfPlan(item_id, plan_id) ==
    {i \in DOMAIN plan_items : plan_items[i].plan_id = plan_id}

(* WHERE id = ?1 AND plan_id = ?2 on plan_items.                           *)
ItemRowsWhereIdAndPlanId(item_id, plan_id) ==
    {i \in DOMAIN plan_items : i = item_id /\ plan_items[i].plan_id = plan_id}

(* SELECT ... FROM plan_items WHERE plan_id = ?1 as get_plan collects it:  *)
(* the rows in storage order, those whose read fails (`bad`) left out.     *)
SelectPlanItems(plan_id, bad) ==
    LET ids == RowidsAscending(ItemRowsWherePlanId(plan_id) \ bad)
    IN  [k \in 1..Len(ids) |->
           PlanItem(ids[k], plan_items[ids[k]].plan_id, plan_items[ids[k]])]

(* TravelPlan as get_plans, get_plan and update_plan build it.             *)
TravelPlan(id, row, items) ==
    [id |-> Some(id), name |-> row.name, start_date |-> row.start_date,
     end_date |-> row.end_date, items |-> items]

(* The list SELECT of get_plans with its guard dropped before the COUNT.   *)
get_plans_guard_per_read(p, fault, bad) ==
    /\ Lock(p)
    /\ LET request == Request("get_plans", 0, 0, None)
           ids == RowidsAscending(DOMAIN travel_plans \ bad)
       IN  IF fault = "prepare"
           THEN Panic(p, request) /\ UNCHANGED acc
           ELSE /\ holder' = Free
                /\ Continue(p, request, "count",
                            [k \in 1..Len(ids) |-> TravelPlan(ids[k], travel_plans[ids[k]], None)])
                /\ UNCHANGED poisoned
    /\ UNCHANGED << travel_plans, plan_items, tables, deleted, added, last_insert_rowid >>

(* First statement of get_plans: the list SELECT; a row whose read fails   *)
(* is logged and left out.                                                 *)
get_plans(p, fault, bad) ==
    /\ Lock(p)
    /\ LET request == Request("get_plans", 0, 0, None)
           ids == RowidsAscending(DOMAIN travel_plans \ bad)
       IN  IF fault = "prepare"
           THEN Panic(p, request) /\ UNCHANGED acc
           ELSE /\ holder' = p
                /\ Continue(p, request, "count",
                            [k \in 1..Len(ids) |-> TravelPlan(ids[k], travel_plans[ids[k]], None)])
                /\ UNCHANGED poisoned
    /\ UNCHANGED << travel_plans, plan_items, tables, deleted, added, last_insert_rowid >>

(* The end of the range computed without the is_empty() test.             *)
ContentRange_unguarded(plans, count) ==
    [unit |-> "plans", first |-> 0, last |-> Len(plans) - 1, size |-> count]

(* format!("plans 0-{}/{}", ...): the three parts of the header value.     *)
ContentRange(plans, count) ==
    [unit |-> "plans", first |-> 0,
     last |-> IF Len(plans) = 0 THEN 0 ELSE Len(plans) - 1,
     size |-> count]

(* Second statement of get_plans: the COUNT over travel_plans.             *)
get_plans_count(p, fault) ==
    /\ pc[p] = "count"
    /\ op[p].kind = "get_plans"
    /\ LET count == Cardinality(DOMAIN travel_plans)
       IN  IF fault = "query_row"
           THEN Respond(p, op[p], Empty(InternalServerError))
           ELSE Respond(p, op[p],
                        [status |-> Ok, header |-> Some(ContentRange(acc[p], count)),
                         body |-> Some(acc[p])])
    /\ UNCHANGED << travel_plans, plan_items, tables, holder, poisoned, acc, deleted, added, last_insert_rowid >>

(* get_plans as main.rs defines and routes it: the list SELECT alone; the  *)
(* first row whose read fails ends the request with 500, and the response  *)
(* carries no Content-Range.                                               *)
main_get_plans(p, fault, bad) ==
    /\ Lock(p)
    /\ LET request == Request("main_get_plans", 0, 0, None)
           ids == RowidsAscending(DOMAIN travel_plans)
       IN  IF fault = "prepare"
           THEN Panic(p, request)
           ELSE /\ holder' = p
                /\ UNCHANGED poisoned
                /\ IF bad \cap DOMAIN travel_plans # {}
                   THEN Respond(p, request, Empty(InternalServerError))
                   ELSE Respond(p, request,
                                Json(Ok, [k \in 1..Len(ids) |->
                                            TravelPlan(ids[k], travel_plans[ids[k]], None)]))
    /\ UNCHANGED << travel_plans, plan_items, tables, acc, deleted, added, last_insert_rowid >>

add_plan(p, body, fault) ==
    /\ Lock(p)
    /\ holder' = p
    /\ LET request == Request("add_plan", 0, 0, Some(body))
           id == NextRowid(travel_plans)
       IN  IF fault = "execute"
           THEN /\ Respond(p, request, Empty(InternalServerError))
                /\ UNCHANGED << travel_plans, deleted, last_insert_rowid >>
           ELSE /\ travel_plans' = (id :> PlanRow(body)) @@ travel_plans
                /\ deleted' = [i \in {j \in DOMAIN deleted : j = id => deleted[j] > 0} |->
                                  IF i = id THEN Reassigned ELSE deleted[i]]
                /\ last_insert_rowid' = id
                /\ Respond(p, request, Json(Created, [body EXCEPT !.id = Some(last_insert_rowid')]))
    /\ UNCHANGED << plan_items, tables, poisoned, acc, added >>

(* add_plan statement by statement.  First statement: the INSERT.          *)
(* The guard dropped after it, in the variant below.                       *)
add_plan_execute_guard_per_statement(p, body, fault) ==
    /\ Lock(p)
    /\ LET request == Request("add_plan", 0, 0, Some(body))
           id == NextRowid(travel_plans)
       IN  IF fault = "execute"
           THEN /\ holder' = p
                /\ Respond(p, request, Empty(InternalServerError))
                /\ UNCHANGED << travel_plans, deleted, last_insert_rowid, acc >>
           ELSE /\ holder' = Free
                /\ travel_plans' = (id :> PlanRow(body)) @@ travel_plans
                /\ deleted' = [i \in {j \in DOMAIN deleted : j = id => deleted[j] > 0} |->
                                  IF i = id THEN Reassigned ELSE deleted[i]]
                /\ last_insert_rowid' = id
                /\ Continue(p, request, "rowid", body)
    /\ UNCHANGED << plan_items, tables, poisoned, added >>

(* add_plan statement by statement.  First statement: the INSERT, under    *)
(* the guard the handler keeps until it returns.                           *)
add_plan_execute(p, body, fault) ==
    /\ Lock(p)
    /\ holder' = p
    /\ LET request == Request("add_plan", 0, 0, Some(body))
           id == NextRowid(travel_plans)
       IN  IF fault = "execute"
           THEN /\ Respond(p, request, Empty(InternalServerError))
                /\ UNCHANGED << travel_plans, deleted, last_insert_rowid, acc >>
           ELSE /\ travel_plans' = (id :> PlanRow(body)) @@ travel_plans
                /\ deleted' = [i \in {j \in DOMAIN deleted : j = id => deleted[j] > 0} |->
                                  IF i = id THEN Reassigned ELSE deleted[i]]
                /\ last_insert_rowid' = id
                /\ Continue(p, request, "rowid", body)
    /\ UNCHANGED << plan_items, tables, poisoned, added >>

(* Second statement: plan.id = Some(conn.last_insert_rowid()) and the      *)
(* response.                                                               *)
add_plan_last_insert_rowid(p) ==
    /\ pc[p] = "rowid"
    /\ op[p].kind = "add_plan"
    /\ Respond(p, op[p], Json(Created, [acc[p] EXCEPT !.id = Some(last_insert_rowid)]))
    /\ UNCHANGED << travel_plans, plan_items, tables, holder, poisoned, acc, deleted, added,
                    last_insert_rowid >>

(* add_plan_item statement by statement.  First statement: the INSERT.     *)
add_plan_item_execute(p, plan_id, item_req, fault) ==
    /\ Lock(p)
    /\ holder' = p
    /\ LET request == Request("add_plan_item", plan_id, 0, Some(item_req))
           id == NextRowid(plan_items)
       IN  IF fault = "execute" \/ ~ForeignKeyHolds(plan_id)
           THEN /\ Respond(p, request, Empty(InternalServerError))
                /\ UNCHANGED << plan_items, last_insert_rowid, acc >>
           ELSE /\ plan_items' = (id :> ItemRow(plan_id, item_req)) @@ plan_items
                /\ last_insert_rowid' = id
                /\ Continue(p, request, "rowid", item_req)
    /\ added' = InsertionOrder(plan_items')
    /\ UNCHANGED << travel_plans, tables, poisoned, deleted >>

(* Second statement: new_item.id = Some(conn.last_insert_rowid()) and the  *)
(* response.                                                               *)
add_plan_item_last_insert_rowid(p) ==
    /\ pc[p] = "rowid"
    /\ op[p].kind = "add_plan_item"
    /\ Respond(p, op[p], Json(Created, PlanItem(last_insert_rowid, op[p].plan_id, acc[p])))
    /\ UNCHANGED << travel_plans, plan_items, tables, holder, poisoned, acc, deleted, added,
                    last_insert_rowid >>

(* get_plan with a guard scoped to the metadata SELECT alone.              *)
get_plan_guard_per_read(p, plan_id, fault) ==
    /\ Lock(p)
    /\ LET request == Request("get_plan", plan_id, 0, None)
           rows == RowidsAscending(PlanRowsWhereId(plan_id))
       IN  IF fault = "query_row"
           THEN holder' = p /\ Respond(p, request, Empty(InternalServerError)) /\ UNCHANGED acc
           ELSE IF rows = << >>
           THEN holder' = p /\ Respond(p, request, Empty(NotFound)) /\ UNCHANGED acc
           ELSE /\ holder' = Free
                /\ Continue(p, request, "items",
                            TravelPlan(rows[1], travel_plans[rows[1]], Some(<< >>)))
    /\ UNCHANGED << travel_plans, plan_items, tables, poisoned, deleted, added, last_insert_rowid >>

(* First statement of get_plan: the metadata SELECT.                       *)
get_plan(p, plan_id, fault) ==
    /\ Lock(p)
    /\ holder' = p
    /\ LET request == Request("get_plan", plan_id, 0, None)
           rows == RowidsAscending(PlanRowsWhereId(plan_id))
       IN  IF fault = "query_row"
           THEN Respond(p, request, Empty(InternalServerError)) /\ UNCHANGED acc
           ELSE IF rows = << >>
           THEN Respond(p, request, Empty(NotFound)) /\ UNCHANGED acc
           ELSE Continue(p, request, "items",
                         TravelPlan(rows[1], travel_plans[rows[1]], Some(<< >>)))
    /\ UNCHANGED << travel_plans, plan_items, tables, poisoned, deleted, added, last_insert_rowid >>

(* The items statement deleting the rows whose read fails.                 *)
get_plan_items_drops_bad_rows(p, fault, bad) ==
    /\ pc[p] = "items"
    /\ op[p].kind = "get_plan"
    /\ LET items == SelectPlanItems(op[p].plan_id, bad)
       IN  IF fault = "prepare"
           THEN Panic(p, op[p]) /\ UNCHANGED plan_items
           ELSE /\ Respond(p, op[p], Json(Ok, [acc[p] EXCEPT !.items = Some(items)]))
                /\ plan_items' = [i \in DOMAIN plan_items \ bad |-> plan_items[i]]
                /\ UNCHANGED << holder, poisoned >>
    /\ added' = InsertionOrder(plan_items')
    /\ UNCHANGED << travel_plans, tables, acc, deleted, last_insert_rowid >>

(* The items statement answering with items absent when it read no row.    *)
get_plan_items_absent_when_empty(p, fault, bad) ==
    /\ pc[p] = "items"
    /\ op[p].kind = "get_plan"
    /\ LET items == SelectPlanItems(op[p].plan_id, bad)
       IN  IF fault = "prepare"
           THEN Panic(p, op[p])
           ELSE /\ Respond(p, op[p],
                           Json(Ok, [acc[p] EXCEPT
                                       !.items = IF items = << >> THEN None ELSE Some(items)]))
                /\ UNCHANGED << holder, poisoned >>
    /\ UNCHANGED << travel_plans, plan_items, tables, acc, deleted, added, last_insert_rowid >>

(* The items statement failing fast: a row whose read fails ends the fetch *)
(* with an error response.                                                 *)
get_plan_items_fail_fast(p, fault, bad) ==
    /\ pc[p] = "items"
    /\ op[p].kind = "get_plan"
    /\ LET items == SelectPlanItems(op[p].plan_id, bad)
       IN  IF fault = "prepare"
           THEN Panic(p, op[p])
           ELSE /\ IF bad \cap ItemRowsWherePlanId(op[p].plan_id) # {}
                   THEN Respond(p, op[p], Empty(InternalServerError))
                   ELSE Respond(p, op[p], Json(Ok, [acc[p] EXCEPT !.items = Some(items)]))
                /\ UNCHANGED << holder, poisoned >>
    /\ UNCHANGED << travel_plans, plan_items, tables, acc, deleted, added, last_insert_rowid >>

(* Second statement of get_plan: the items SELECT, under the same guard;   *)
(* a row whose read fails is logged and left out.                          *)
get_plan_items(p, fault, bad) ==
    /\ pc[p] = "items"
    /\ op[p].kind = "get_plan"
    /\ LET items == SelectPlanItems(op[p].plan_id, bad)
       IN  IF fault = "prepare"
           THEN Panic(p, op[p])
           ELSE /\ Respond(p, op[p], Json(Ok, [acc[p] EXCEPT !.items = Some(items)]))
                /\ UNCHANGED << holder, poisoned >>
    /\ UNCHANGED << travel_plans, plan_items, tables, acc, deleted, added, last_insert_rowid >>

(* update_plan over a storage layer that counts a row as affected only     *)
(* when the UPDATE changes a value of it.                                  *)
update_plan_counts_changes(p, plan_id, body, fault) ==
    /\ Lock(p)
    /\ holder' = p
    /\ LET request == Request("update_plan", plan_id, 0, Some(body))
           rows == {i \in PlanRowsWhereId(plan_id) : travel_plans[i] # PlanRow(body)}
       IN  IF fault = "execute"
           THEN Respond(p, request, Empty(InternalServerError)) /\ UNCHANGED travel_plans
           ELSE /\ travel_plans' = [i \in DOMAIN travel_plans |->
                                      IF i \in rows THEN PlanRow(body) ELSE travel_plans[i]]
                /\ IF Cardinality(rows) = 0
                   THEN Respond(p, request, Empty(NotFound))
                   ELSE Respond(p, request, Json(Ok, TravelPlan(plan_id, PlanRow(body), None)))
    /\ UNCHANGED << plan_items, tables, poisoned, acc, deleted, added, last_insert_rowid >>

(* The UPDATE counts every row its WHERE clause matches, whether or not    *)
(* the new values differ from the stored ones.                             *)
update_plan(p, plan_id, body, fault) ==
    /\ Lock(p)
    /\ holder' = p
    /\ LET request == Request("update_plan", plan_id, 0, Some(body))
           rows == PlanRowsWhereId(plan_id)
       IN  IF fault = "execute"
           THEN Respond(p, request, Empty(InternalServerError)) /\ UNCHANGED travel_plans
           ELSE /\ travel_plans' = [i \in DOMAIN travel_plans |->
                                      IF i \in rows THEN PlanRow(body) ELSE travel_plans[i]]
                /\ IF Cardinality(rows) = 0
                   THEN Respond(p, request, Empty(NotFound))
                   ELSE Respond(p, request, Json(Ok, TravelPlan(plan_id, PlanRow(body), None)))
    /\ UNCHANGED << plan_items, tables, poisoned, acc, deleted, added, last_insert_rowid >>

(* delete_plan removing the items in a statement of its own before the     *)
(* plan: when the second statement fails the items are gone already.       *)
delete_plan_manual_cascade(p, plan_id, fault) ==
    /\ Lock(p)
    /\ holder' = p
    /\ LET request == Request("delete_plan", plan_id, 0, None)
           rows == PlanRowsWhereId(plan_id)
       IN  IF fault = "execute"
           THEN /\ Respond(p, request, Empty(InternalServerError))
                /\ plan_items' = OnDeleteCascade(rows)
                /\ UNCHANGED << travel_plans, deleted >>
           ELSE /\ travel_plans' = [i \in DOMAIN travel_plans \ rows |-> travel_plans[i]]
                /\ plan_items' = OnDeleteCascade(rows)
                /\ IF Cardinality(rows) = 0
                   THEN Respond(p, request, Empty(NotFound)) /\ UNCHANGED deleted
                   ELSE /\ Respond(p, request, Empty(NoContent))
                        /\ deleted' = (plan_id :> Cardinality(ItemRowsWherePlanId(plan_id))) @@ deleted
    /\ added' = InsertionOrder(plan_items')
    /\ UNCHANGED << tables, poisoned, acc, last_insert_rowid >>

delete_plan(p, plan_id, fault) ==
    /\ Lock(p)
    /\ holder' = p
    /\ LET request == Request("delete_plan", plan_id, 0, None)
           rows == PlanRowsWhereId(plan_id)
       IN  IF fault = "execute"
           THEN /\ Respond(p, request, Empty(InternalServerError))
                /\ UNCHANGED << travel_plans, plan_items, deleted >>
           ELSE /\ travel_plans' = [i \in DOMAIN travel_plans \ rows |-> travel_plans[i]]
                /\ plan_items' = OnDeleteCascade(rows)
                /\ IF Cardinality(rows) = 0
                   THEN Respond(p, request, Empty(NotFound)) /\ UNCHANGED deleted
                   ELSE /\ Respond(p, request, Empty(NoContent))
                        /\ deleted' = (plan_id :> Cardinality(ItemRowsWherePlanId(plan_id))) @@ deleted
    /\ added' = InsertionOrder(plan_items')
    /\ UNCHANGED << tables, poisoned, acc, last_insert_rowid >>

(* add_plan_item with the plan-existence pre-check that the source keeps   *)
(* commented out.                                                          *)
add_plan_item_checks_plan(p, plan_id, item_req, fault) ==
    /\ Lock(p)
    /\ holder' = p
    /\ LET request == Request("add_plan_item", plan_id, 0, Some(item_req))
           id == NextRowid(plan_items)
       IN  IF PlanRowsWhereId(plan_id) = {}
           THEN Respond(p, request, Empty(NotFound)) /\ UNCHANGED << plan_items, last_insert_rowid >>
           ELSE IF fault = "execute" \/ ~ForeignKeyHolds(plan_id)
           THEN Respond(p, request, Empty(InternalServerError)) /\ UNCHANGED << plan_items, last_insert_rowid >>
           ELSE /\ plan_items' = (id :> ItemRow(plan_id, item_req)) @@ plan_items
                /\ last_insert_rowid' = id
                /\ Respond(p, request, Json(Created, PlanItem(last_insert_rowid', plan_id, item_req)))
    /\ added' = InsertionOrder(plan_items')
    /\ UNCHANGED << travel_plans, tables, poisoned, acc, deleted >>

(* The INSERT; a plan_id that names no plan fails the foreign key, and     *)
(* every Err of execute is answered with 500.                              *)
add_plan_item(p, plan_id, item_req, fault) ==
    /\ Lock(p)
    /\ holder' = p
    /\ LET request == Request("add_plan_item", plan_id, 0, Some(item_req))
           id == NextRowid(plan_items)
       IN  IF fault = "execute" \/ ~ForeignKeyHolds(plan_id)
           THEN Respond(p, request, Empty(InternalServerError)) /\ UNCHANGED << plan_items, last_insert_rowid >>
           ELSE /\ plan_items' = (id :> ItemRow(plan_id, item_req)) @@ plan_items
                /\ last_insert_rowid' = id
                /\ Respond(p, request, Json(Created, PlanItem(last_insert_rowid', plan_id, item_req)))
    /\ added' = InsertionOrder(plan_items')
    /\ UNCHANGED << travel_plans, tables, poisoned, acc, deleted >>

(* An UPDATE keyed by the item id alone that also sets plan_id to the plan *)
(* of the path.                                                            *)
update_plan_item_moves_item(p, plan_id, item_id, item_req, fault) ==
    /\ Lock(p)
    /\ holder' = p
    /\ LET request == Request("update_plan_item", plan_id, item_id, Some(item_req))
           rows == ItemRowsWhereId(item_id, plan_id)
       IN  IF fault = "execute" \/ ~ForeignKeyHolds(plan_id)
           THEN Respond(p, request, Empty(InternalServerError)) /\ UNCHANGED plan_items
           ELSE /\ plan_items' = [i \in DOMAIN plan_items |->
                                    IF i \in rows
                                    THEN ItemRow(plan_id, item_req)
                                    ELSE plan_items[i]]
                /\ IF Cardinality(rows) = 0
                   THEN Respond(p, request, Empty(NotFound))
                   ELSE Respond(p, request, Json(Ok, PlanItem(item_id, plan_id, item_req)))
    /\ UNCHANGED << travel_plans, tables, poisoned, acc, deleted, added, last_insert_rowid >>

update_plan_item(p, plan_id, item_id, item_req, fault) ==
    /\ Lock(p)
    /\ holder' = p
    /\ LET request == Request("update_plan_item", plan_id, item_id, Some(item_req))
           rows == ItemRowsWhereIdAndPlanId(item_id, plan_id)
       IN  IF fault = "execute"
           THEN Respond(p, request, Empty(InternalServerError)) /\ UNCHANGED plan_items
           ELSE /\ plan_items' = [i \in DOMAIN plan_items |->
                                    IF i \in rows
                                    THEN ItemRow(plan_items[i].plan_id, item_req)
                                    ELSE plan_items[i]]
                /\ IF Cardinality(rows) = 0
                   THEN Respond(p, request, Empty(NotFound))
                   ELSE Respond(p, request, Json(Ok, PlanItem(item_id, plan_id, item_req)))
    /\ UNCHANGED << travel_plans, tables, poisoned, acc, deleted, added, last_insert_rowid >>

delete_plan_item(p, plan_id, item_id, fault) ==
    /\ Lock(p)
    /\ holder' = p
    /\ LET request == Request("delete_plan_item", plan_id, item_id, None)
           rows == ItemRowsWhereIdAndPlanId(item_id, plan_id)
       IN  IF fault = "execute"
           THEN Respond(p, request, Empty(InternalServerError)) /\ UNCHANGED plan_items
           ELSE /\ plan_items' = [i \in DOMAIN plan_items \ rows |-> plan_items[i]]
                /\ IF Cardinality(rows) = 0
                   THEN Respond(p, request, Empty(NotFound))
                   ELSE Respond(p, request, Empty(NoContent))
    /\ added' = InsertionOrder(plan_items')
    /\ UNCHANGED << travel_plans, tables, poisoned, acc, deleted, last_insert_rowid >>

(* ------------- places.rs, accommodations.rs, restaurants.rs ------------ *)
(* The three modules are the same code over their own table; `kind` names  *)
(* the table.                                                              *)
Place(id, row) ==
    [id |-> Some(id), name |-> row.name, description |-> row.description,
     location |-> row.location]

(* The row an INSERT or UPDATE writes, its location column left unbound.   *)
PlaceRow_without_location(b) ==
    [name |-> b.name, description |-> b.description, location |-> None]

PlaceRow(b) == [name |-> b.name, description |-> b.description, location |-> b.location]

get_places(p, kind, fault) ==
    /\ Lock(p)
    /\ LET request == Request("get_" \o kind \o "s", 0, 0, None)
           ids == RowidsAscending(DOMAIN tables[kind])
       IN  IF fault = "row"
           THEN Panic(p, request)
           ELSE /\ holder' = p
                /\ UNCHANGED poisoned
                /\ IF fault = "prepare"
                   THEN Respond(p, request, Empty(InternalServerError))
                   ELSE Respond(p, request,
                                Json(Ok, [k \in 1..Len(ids) |-> Place(ids[k], tables[kind][ids[k]])]))
    /\ UNCHANGED << travel_plans, plan_items, tables, acc, deleted, added, last_insert_rowid >>

add_place(p, kind, body, fault) ==
    /\ Lock(p)
    /\ holder' = p
    /\ LET request == Request("add_" \o kind, 0, 0, Some(body))
           id == NextRowid(tables[kind])
       IN  IF fault = "execute"
           THEN Respond(p, request, Empty(InternalServerError)) /\ UNCHANGED << tables, last_insert_rowid >>
           ELSE /\ tables' = [tables EXCEPT ![kind] = (id :> PlaceRow(body)) @@ @]
                /\ last_insert_rowid' = id
                /\ Respond(p, request, Json(Created, [body EXCEPT !.id = Some(last_insert_rowid')]))
    /\ UNCHANGED << travel_plans, plan_items, poisoned, acc, deleted, added >>

get_place(p, kind, id, fault) ==
    /\ Lock(p)
    /\ holder' = p
    /\ LET request == Request("get_" \o kind, id, 0, None)
       IN  IF fault = "query_row"
           THEN Respond(p, request, Empty(InternalServerError))
           ELSE IF id \notin DOMAIN tables[kind]
           THEN Respond(p, request, Empty(NotFound))
           ELSE Respond(p, request, Json(Ok, Place(id, tables[kind][id])))
    /\ UNCHANGED << travel_plans, plan_items, tables, poisoned, acc, deleted, added, last_insert_rowid >>

update_place(p, kind, id, body, fault) ==
    /\ Lock(p)
    /\ holder' = p
    /\ LET request == Request("update_" \o kind, id, 0, Some(body))
           rows == {i \in DOMAIN tables[kind] : i = id}
       IN  IF fault = "execute"
           THEN Respond(p, request, Empty(InternalServerError)) /\ UNCHANGED tables
           ELSE /\ tables' = [tables EXCEPT ![kind] =
                                [i \in DOMAIN @ |-> IF i \in rows THEN PlaceRow(body) ELSE @[i]]]
                /\ IF Cardinality(rows) = 0
                   THEN Respond(p, request, Empty(NotFound))
                   ELSE Respond(p, request, Json(Ok, Place(id, PlaceRow(body))))
    /\ UNCHANGED << travel_plans, plan_items, poisoned, acc, deleted, added, last_insert_rowid >>

(* delete_place over a schema that restricts the delete of an entity that  *)
(* a plan item references.                                                 *)
delete_place_restricted(p, kind, id, fault) ==
    /\ Lock(p)
    /\ holder' = p
    /\ LET request == Request("delete_" \o kind, id, 0, None)
           rows == {i \in DOMAIN tables[kind] : i = id}
           referenced == \E i \in DOMAIN plan_items :
                            plan_items[i].entity_type = kind /\ plan_items[i].entity_id \in rows
       IN  IF fault = "execute" \/ referenced
           THEN Respond(p, request, Empty(InternalServerError)) /\ UNCHANGED tables
           ELSE /\ tables' = [tables EXCEPT ![kind] = [i \in DOMAIN @ \ rows |-> @[i]]]
                /\ IF Cardinality(rows) = 0
                   THEN Respond(p, request, Empty(NotFound))
                   ELSE Respond(p, request, Empty(NoContent))
    /\ UNCHANGED << travel_plans, plan_items, poisoned, acc, deleted, added, last_insert_rowid >>

(* The DELETE on the entity's own table; plan_items is not involved.       *)
delete_place(p, kind, id, fault) ==
    /\ Lock(p)
    /\ holder' = p
    /\ LET request == Request("delete_" \o kind, id, 0, None)
           rows == {i \in DOMAIN tables[kind] : i = id}
       IN  IF fault = "execute"
           THEN Respond(p, request, Empty(InternalServerError)) /\ UNCHANGED tables
           ELSE /\ tables' = [tables EXCEPT ![kind] = [i \in DOMAIN @ \ rows |-> @[i]]]
                /\ IF Cardinality(rows) = 0
                   THEN Respond(p, request, Empty(NotFound))
                   ELSE Respond(p, request, Empty(NoContent))
    /\ UNCHANGED << travel_plans, plan_items, poisoned, acc, deleted, added, last_insert_rowid >>

(* ------------------------------ search.rs ------------------------------ *)
(* SQLite's LIKE: % matches any run of characters, _ any one character,    *)
(* and ASCII letters match without regard to case.                         *)
Fold(c) ==
    CASE c = "A" -> "a" [] c = "B" -> "b" [] c = "L" -> "l" [] OTHER -> c

RECURSIVE Like(_, _)
Like(text, pattern) ==
    IF pattern = << >> THEN text = << >>
    ELSE IF Head(pattern) = "%"
    THEN Like(text, Tail(pattern)) \/ (text # << >> /\ Like(Tail(text), pattern))
    ELSE IF text = << >> THEN FALSE
    ELSE IF Head(pattern) = "_" THEN Like(Tail(text), Tail(pattern))
    ELSE Fold(Head(text)) = Fold(Head(pattern)) /\ Like(Tail(text), Tail(pattern))

(* The pattern without the two % around the query.                         *)
Pattern_exact(q) == q

(* format!("%{}%", params.q)                                               *)
Pattern(q) == << "%" >> \o q \o << "%" >>

(* The rows of a sub-query, each tagged "place" whatever its table.         *)
SearchRows_tagged_place(kind, q) ==
    LET t == tables[kind]
        ids == RowidsAscending({i \in DOMAIN t :
                   \/ Like(t[i].name, Pattern(q))
                   \/ (t[i].description # None /\ Like(t[i].description[1], Pattern(q)))})
    IN  [k \in 1..Len(ids) |->
           [id |-> ids[k], name |-> t[ids[k]].name, entity_type |-> "place",
            description |-> t[ids[k]].description, location |-> t[ids[k]].location]]

(* WHERE name LIKE ?1 OR description LIKE ?1 (a NULL description matches   *)
(* nothing), each row as a SearchResultItem tagged with its kind.          *)
SearchRows(kind, q) ==
    LET t == tables[kind]
        ids == RowidsAscending({i \in DOMAIN t :
                   \/ Like(t[i].name, Pattern(q))
                   \/ (t[i].description # None /\ Like(t[i].description[1], Pattern(q)))})
    IN  [k \in 1..Len(ids) |->
           [id |-> ids[k], name |-> t[ids[k]].name, entity_type |-> kind,
            description |-> t[ids[k]].description, location |-> t[ids[k]].location]]

(* First statement: the places SELECT.  prepare(..).unwrap() and the       *)
(* unwrap() of each row panic on an error.                                 *)
search_entities(p, q, fault) ==
    /\ Lock(p)
    /\ LET request == Request("search_entities", 0, 0, Some(q))
       IN  IF fault \in {"prepare", "row"}
           THEN Panic(p, request) /\ UNCHANGED acc
           ELSE /\ holder' = p
                /\ Continue(p, request, "accommodations", SearchRows("place", q))
                /\ UNCHANGED poisoned
    /\ UNCHANGED << travel_plans, plan_items, tables, deleted, added, last_insert_rowid >>

search_accommodations(p, fault) ==
    /\ pc[p] = "accommodations"
    /\ IF fault \in {"prepare", "row"}
       THEN Panic(p, op[p]) /\ UNCHANGED acc
       ELSE /\ Continue(p, op[p], "restaurants",
                        acc[p] \o SearchRows("accommodation", op[p].body[1]))
            /\ UNCHANGED << holder, poisoned >>
    /\ UNCHANGED << travel_plans, plan_items, tables, deleted, added, last_insert_rowid >>

search_restaurants(p, fault) ==
    /\ pc[p] = "restaurants"
    /\ IF fault \in {"prepare", "row"}
       THEN Panic(p, op[p])
       ELSE /\ Respond(p, op[p], Json(Ok, acc[p] \o SearchRows("restaurant", op[p].body[1])))
            /\ UNCHANGED << holder, poisoned >>
    /\ UNCHANGED << travel_plans, plan_items, tables, acc, deleted, added, last_insert_rowid >>

(* ---------------------------- specifications --------------------------- *)
(* The handlers of a worker, with the requests' arguments drawn from the   *)
(* given sets; an insert is taken only while storage assigns a rowid       *)
(* within the bound.                                                       *)
PlanHandlers(p, PIds, IIds, Bodies, Reqs, F) ==
    \/ \E f \in F \cap {NoFault, "prepare"}, bad \in BadRows(F, PIds) : get_plans(p, f, bad)
    \/ \E f \in F \cap {NoFault, "query_row"} : get_plans_count(p, f)
    \/ \E f \in F \cap {NoFault, "prepare"}, bad \in BadRows(F, PIds) : main_get_plans(p, f, bad)
    \/ \E body \in Bodies, f \in F \cap {NoFault, "execute"} :
          NextRowid(travel_plans) \in PIds /\ add_plan(p, body, f)
    \/ \E plan_id \in PIds, f \in F \cap {NoFault, "query_row"} : get_plan(p, plan_id, f)
    \/ \E f \in F \cap {NoFault, "prepare"}, bad \in BadRows(F, IIds) : get_plan_items(p, f, bad)
    \/ \E plan_id \in PIds, body \in Bodies, f \in F \cap {NoFault, "execute"} :
          update_plan(p, plan_id, body, f)
    \/ \E plan_id \in PIds, f \in F \cap {NoFault, "execute"} : delete_plan(p, plan_id, f)
    \/ \E plan_id \in PIds, r \in Reqs, f \in F \cap {NoFault, "execute"} :
          NextRowid(plan_items) \in IIds /\ add_plan_item(p, plan_id, r, f)
    \/ \E plan_id \in PIds, item_id \in IIds, r \in Reqs, f \in F \cap {NoFault, "execute"} :
          update_plan_item(p, plan_id, item_id, r, f)
    \/ \E plan_id \in PIds, item_id \in IIds, f \in F \cap {NoFault, "execute"} :
          delete_plan_item(p, plan_id, item_id, f)

LeafHandlers(p, EIds, Bodies, F) ==
    \/ \E kind \in Kinds, f \in F \cap {NoFault, "prepare", "row"} : get_places(p, kind, f)
    \/ \E kind \in Kinds, body \in Bodies, f \in F \cap {NoFault, "execute"} :
          NextRowid(tables[kind]) \in EIds /\ add_place(p, kind, body, f)
    \/ \E kind \in Kinds, id \in EIds, f \in F \cap {NoFault, "query_row"} :
          get_place(p, kind, id, f)
    \/ \E kind \in Kinds, id \in EIds, body \in Bodies, f \in F \cap {NoFault, "execute"} :
          update_place(p, kind, id, body, f)
    \/ \E kind \in Kinds, id \in EIds, f \in F \cap {NoFault, "execute"} :
          delete_place(p, kind, id, f)

SearchHandler(p, Qs, F) ==
    \/ \E q \in Qs, f \in F \cap {NoFault, "prepare", "row"} : search_entities(p, q, f)
    \/ \E f \in F \cap {NoFault, "prepare", "row"} : search_accommodations(p, f)
    \/ \E f \in F \cap {NoFault, "prepare", "row"} : search_restaurants(p, f)

(* One client: the requests on the plan aggregate arrive one after the     *)
(* other and storage answers every statement.                              *)
Next ==
    \E p \in {1} :
        Call(p) \/ PlanHandlers(p, PlanIds, ItemIds, TravelPlanBodies, PlanItemRequests, NoFaults) \/ Return(p)

Spec == Init /\ [][Next]_vars

(* Concurrent requests on the plan aggregate; storage answers every        *)
(* statement.                                                              *)
OnePlanBody == {b \in TravelPlanBodies : b.name = "Trip"}
OneItemRequest == {r \in PlanItemRequests : r.entity_type = "place"}

NextConc ==
    \E p \in Procs :
        Call(p) \/ PlanHandlers(p, PlanIds, ItemIds, OnePlanBody, OneItemRequest, NoFaults) \/ Return(p)

SpecConc == Init /\ [][NextConc]_vars

(* Concurrent requests on every route, with storage free to fail any       *)
(* statement; every table holds at most its first row.                     *)
FirstRow == { 1 }
OnePlaceBody == {b \in PlaceBodies : b.id = None}
OneQuery == { << >> }

NextFaults ==
    \E p \in Procs :
        \/ Call(p)
        \/ lock_poisoned(p)
        \/ PlanHandlers(p, FirstRow, FirstRow, OnePlanBody, OneItemRequest, StorageFaults)
        \/ LeafHandlers(p, FirstRow, OnePlaceBody, StorageFaults)
        \/ SearchHandler(p, OneQuery, StorageFaults)
        \/ Return(p)

SpecFaults == Init /\ [][NextFaults]_vars

(* One client that fills the three entity stores and searches them;        *)
(* storage answers every statement.                                        *)
NextSearch ==
    \E p \in {1} :
        \/ Call(p)
        \/ \E kind \in Kinds, body \in PlaceBodies :
              NextRowid(tables[kind]) \in EntityIds /\ add_place(p, kind, body, NoFault)
        \/ SearchHandler(p, Queries, NoFaults)
        \/ Return(p)

SpecSearch == Init /\ [][NextSearch]_vars

(* One client that works on one entity store at a time, over every id and  *)
(* body; storage answers every statement.                                  *)
OnlyStoreInUse(kind) == \A k \in Kinds \ {kind} : DOMAIN tables[k] = {}

NextLeaf ==
    \E p \in {1} :
        \/ Call(p)
        \/ \E kind \in Kinds : get_places(p, kind, NoFault)
        \/ \E kind \in Kinds, body \in PlaceBodies :
              /\ OnlyStoreInUse(kind)
              /\ NextRowid(tables[kind]) \in EntityIds
              /\ add_place(p, kind, body, NoFault)
        \/ \E kind \in Kinds, id \in EntityIds : get_place(p, kind, id, NoFault)
        \/ \E kind \in Kinds, id \in EntityIds, body \in PlaceBodies :
              update_place(p, kind, id, body, NoFault)
        \/ \E kind \in Kinds, id \in EntityIds : delete_place(p, kind, id, NoFault)
        \/ Return(p)

SpecLeaf == Init /\ [][NextLeaf]_vars

(* One client that fills the plan aggregate and the entity stores and      *)
(* deletes plans; storage answers every statement and an entity store      *)
(* holds at most its first row.                                            *)
NextCascade ==
    \E p \in {1} :
        \/ Call(p)
        \/ \E body \in OnePlanBody :
              NextRowid(travel_plans) \in PlanIds /\ add_plan(p, body, NoFault)
        \/ \E plan_id \in PlanIds, r \in PlanItemRequests :
              NextRowid(plan_items) \in ItemIds /\ add_plan_item(p, plan_id, r, NoFault)
        \/ \E kind \in Kinds, body \in OnePlaceBody :
              NextRowid(tables[kind]) \in FirstRow /\ add_place(p, kind, body, NoFault)
        \/ \E plan_id \in PlanIds : delete_plan(p, plan_id, NoFault)
        \/ Return(p)

SpecCascade == Init /\ [][NextCascade]_vars

(* One client that adds, deletes and lists plans, with storage free to     *)
(* fail any statement and the read of any row.                             *)
NextList ==
    \E p \in {1} :
        \/ Call(p)
        \/ lock_poisoned(p)
        \/ \E body \in TravelPlanBodies, f \in {NoFault, "execute"} :
              NextRowid(travel_plans) \in PlanIds /\ add_plan(p, body, f)
        \/ \E plan_id \in PlanIds, f \in {NoFault, "execute"} : delete_plan(p, plan_id, f)
        \/ \E f \in {NoFault, "prepare"}, bad \in BadRows(StorageFaults, PlanIds) :
              get_plans(p, f, bad)
        \/ \E f \in {NoFault, "query_row"} : get_plans_count(p, f)
        \/ Return(p)

SpecList == Init /\ [][NextList]_vars

(* Concurrent creates of plans and of items, statement by statement, with  *)
(* deletes that free ids for storage to assign again; storage answers      *)
(* every statement.                                                        *)
NextIds ==
    \E p \in Procs :
        \/ Call(p)
        \/ \E body \in TravelPlanBodies :
              NextRowid(travel_plans) \in PlanIds /\ add_plan_execute(p, body, NoFault)
        \/ add_plan_last_insert_rowid(p)
        \/ \E plan_id \in PlanIds, r \in OneItemRequest :
              NextRowid(plan_items) \in ItemIds /\ add_plan_item_execute(p, plan_id, r, NoFault)
        \/ add_plan_item_last_insert_rowid(p)
        \/ \E plan_id \in PlanIds : delete_plan(p, plan_id, NoFault)
        \/ Return(p)

SpecIds == Init /\ [][NextIds]_vars

(* Concurrent requests that create, read and delete the first plan and    *)
(* add its first item, with storage free to fail any statement, under     *)
(* fair scheduling: a worker whose handler can take a step again and      *)
(* again (its lock() finds the mutex free, its next statement or its      *)
(* return is due) eventually takes one; every such step moves the         *)
(* worker's pc.  The arrival of requests is not forced.                   *)
Serve(p) ==
    \/ lock_poisoned(p)
    \/ \E body \in OnePlanBody, f \in {NoFault, "execute"} :
          NextRowid(travel_plans) \in FirstRow /\ add_plan(p, body, f)
    \/ \E plan_id \in FirstRow, f \in {NoFault, "query_row"} : get_plan(p, plan_id, f)
    \/ \E f \in {NoFault, "prepare"}, bad \in BadRows(StorageFaults, FirstRow) :
          get_plan_items(p, f, bad)
    \/ \E plan_id \in FirstRow, r \in OneItemRequest, f \in {NoFault, "execute"} :
          NextRowid(plan_items) \in FirstRow /\ add_plan_item(p, plan_id, r, f)
    \/ \E plan_id \in FirstRow, f \in {NoFault, "execute"} : delete_plan(p, plan_id, f)
    \/ Return(p)

NextFair == \E p \in Procs : Call(p) \/ Serve(p)

SpecFair == Init /\ [][NextFair]_vars /\ \A p \in Procs : SF_pc(Serve(p))

(* One client on the plan aggregate and the entity stores together, with   *)
(* items that name the first row of a store, a row no store has, and a     *)
(* kind no store is of; storage answers every statement and every table    *)
(* holds at most its first row.                                            *)
ReferringRequests ==
    {[r EXCEPT !.entity_id = id] : r \in PlanItemRequests, id \in FirstRow} \cup OneItemRequest

NextRefs ==
    \E p \in {1} :
        \/ Call(p)
        \/ PlanHandlers(p, FirstRow, FirstRow, OnePlanBody, ReferringRequests, NoFaults)
        \/ LeafHandlers(p, FirstRow, OnePlaceBody, NoFaults)
        \/ Return(p)

SpecRefs == Init /\ [][NextRefs]_vars

(* ------------------------------ properties ----------------------------- *)
(* Worker p's handler `kind` has built its response and not yet returned.  *)
AtRet(p, kind) == pc[p] = "ret" /\ op[p].kind = kind

(* The step in which worker p's handler `kind` runs its one statement.     *)
Runs(p, kind) == pc[p] = "lock" /\ pc'[p] = "ret" /\ op'[p].kind = kind

StoredItemsOf(plan_id) ==
    {i \in DOMAIN plan_items : plan_items[i].plan_id = plan_id}

C2_NoOrphanItems ==
    \A i \in DOMAIN plan_items : plan_items[i].plan_id \in DOMAIN travel_plans

C2_Witness ==
    \E p \in Procs :
        /\ AtRet(p, "delete_plan")
        /\ resp[p].status = NoContent
        /\ deleted[op[p].plan_id] > 0
        /\ plan_items # << >>

(* The entries of get_plan's items for plan_id that carry the fields of    *)
(* the request r.                                                          *)
EntriesWithFields(plan_id, r) ==
    LET items == SelectPlanItems(plan_id, {})
    IN  {k \in 1..Len(items) :
            /\ items[k].entity_type = r.entity_type
            /\ items[k].entity_id = r.entity_id
            /\ items[k].visit_date = r.visit_date
            /\ items[k].notes = r.notes}

EntriesWithId(plan_id, id) ==
    LET items == SelectPlanItems(plan_id, {})
    IN  {k \in 1..Len(items) : items[k].id = id}

(* C3 as stated: after a successful add_plan_item, the items get_plan      *)
(* returns for the plan hold exactly one entry with the inserted fields,   *)
(* and it carries the returned id and the plan_id.                         *)
C3_OneEntryWithTheFields ==
    \A p \in Procs :
        AtRet(p, "add_plan_item") /\ resp[p].status = Created =>
            LET items == SelectPlanItems(op[p].plan_id, {})
                found == EntriesWithFields(op[p].plan_id, op[p].body[1])
            IN  /\ Cardinality(found) = 1
                /\ \A k \in found : /\ items[k].id = resp[p].body[1].id
                                    /\ items[k].plan_id = op[p].plan_id

(* C3: after a successful add_plan_item, the items get_plan returns for    *)
(* the plan hold exactly one entry with the returned id; that entry has    *)
(* the inserted fields and the plan_id, and is the response's body.        *)
C3_OneEntryWithTheId ==
    \A p \in Procs :
        AtRet(p, "add_plan_item") /\ resp[p].status = Created =>
            LET items == SelectPlanItems(op[p].plan_id, {})
                found == EntriesWithId(op[p].plan_id, resp[p].body[1].id)
            IN  /\ resp[p].body[1].id # None
                /\ Cardinality(found) = 1
                /\ found \subseteq EntriesWithFields(op[p].plan_id, op[p].body[1])
                /\ \A k \in found : /\ items[k].plan_id = op[p].plan_id
                                    /\ items[k] = resp[p].body[1]

C3_Witness ==
    \E p \in Procs :
        /\ AtRet(p, "add_plan_item")
        /\ resp[p].status = Created
        /\ Cardinality(EntriesWithFields(op[p].plan_id, op[p].body[1])) = 2

(* The stored item item_id belongs to plan plan_id.                        *)
PairMatches(item_id, plan_id) ==
    item_id \in DOMAIN plan_items /\ plan_items[item_id].plan_id = plan_id

(* C4: update_plan_item answers Ok only when the (item_id, plan_id) pair   *)
(* matches a stored item, and then that item alone takes the new fields;   *)
(* when the pair matches no row it answers NotFound and no item changes.   *)
C4_UpdateItemDualKey ==
    [][\A p \in Procs : Runs(p, "update_plan_item") =>
          LET item_id == op'[p].item_id
              plan_id == op'[p].plan_id
          IN  IF PairMatches(item_id, plan_id)
              THEN /\ resp'[p].status = Ok
                   /\ plan_items' = [plan_items EXCEPT ![item_id] =
                                        ItemRow(plan_id, op'[p].body[1])]
              ELSE /\ resp'[p] = Empty(NotFound)
                   /\ plan_items' = plan_items]_vars

C4_Witness ==
    \E p \in Procs :
        /\ AtRet(p, "update_plan_item")
        /\ resp[p].status = NotFound
        /\ op[p].item_id \in DOMAIN plan_items
        /\ op[p].plan_id \in DOMAIN travel_plans
        /\ plan_items[op[p].item_id].plan_id # op[p].plan_id

(* C5: delete_plan_item removes an item only when the (item_id, plan_id)   *)
(* pair matches it, and then removes that item alone; when the pair        *)
(* matches no row it answers NotFound and no item is removed.              *)
C5_DeleteItemDualKey ==
    [][\A p \in Procs : Runs(p, "delete_plan_item") =>
          LET item_id == op'[p].item_id
              plan_id == op'[p].plan_id
          IN  IF PairMatches(item_id, plan_id)
              THEN /\ resp'[p] = Empty(NoContent)
                   /\ plan_items' = [i \in DOMAIN plan_items \ {item_id} |-> plan_items[i]]
              ELSE /\ resp'[p] = Empty(NotFound)
                   /\ plan_items' = plan_items]_vars

C5_Witness ==
    \E p \in Procs :
        /\ AtRet(p, "delete_plan_item")
        /\ resp[p].status = NotFound
        /\ op[p].item_id \in DOMAIN plan_items
        /\ op[p].plan_id \in DOMAIN travel_plans
        /\ plan_items[op[p].item_id].plan_id # op[p].plan_id

(* C6: add_plan_item for a plan_id that names no stored plan answers       *)
(* InternalServerError, not NotFound, and inserts nothing.                 *)
C6_AddItemToMissingPlan ==
    [][\A p \in Procs :
          Runs(p, "add_plan_item") /\ op'[p].plan_id \notin DOMAIN travel_plans =>
              /\ resp'[p] = Empty(InternalServerError)
              /\ plan_items' = plan_items]_vars

C6_Witness ==
    \E p \in Procs :
        /\ AtRet(p, "add_plan_item")
        /\ op[p].plan_id \notin DOMAIN travel_plans
        /\ resp[p].status = InternalServerError

(* Worker p is between its lock() and its return: it issues statements or  *)
(* has issued its last one and still owns the guard.                       *)
InCriticalSection(p) ==
    pc[p] \in {"count", "items", "rowid", "accommodations", "restaurants", "ret"}

(* C7: no two workers are inside their critical section at the same time,  *)
(* the one inside owns the guard, and a worker in lock() stays there for   *)
(* as long as another worker's guard lives.                                *)
C7_MutualExclusion ==
    /\ [](\A p, q \in Procs :
             InCriticalSection(p) /\ InCriticalSection(q) => p = q /\ holder = p)
    /\ [][\A p \in Procs :
             pc[p] = "lock" /\ holder # Free => pc'[p] = "lock"]_vars

C7_Witness ==
    \E p, q \in Procs :
        /\ p # q
        /\ InCriticalSection(p)
        /\ holder = p
        /\ pc[q] = "lock"

(* C8 as stated: whenever no operation owns the handle, the next operation *)
(* can acquire it and run: the mutex is never left poisoned and no handler *)
(* dies in its lock().                                                     *)
C8_HandleUsableAfterEveryExit ==
    /\ holder = Free => ~poisoned
    /\ \A p \in Procs : ~(pc[p] = "panic" /\ op[p] = NoOp)

(* C9 as stated: between its two reads get_plan does not own the handle.   *)
C9_GuardDroppedBetweenReads ==
    \A p \in Procs : pc[p] = "items" => holder # p

(* C9: get_plan reads the metadata and the items under one guard: between  *)
(* the two reads it owns the handle, the plan it read is still stored      *)
(* unchanged, and its Ok response carries the items stored for the plan at *)
(* that moment.                                                            *)
C9_OneGuardForBothReads ==
    \A p \in Procs :
        /\ pc[p] = "items" =>
              /\ holder = p
              /\ op[p].plan_id \in DOMAIN travel_plans
              /\ acc[p] = TravelPlan(op[p].plan_id, travel_plans[op[p].plan_id], Some(<< >>))
        /\ AtRet(p, "get_plan") /\ resp[p].status = Ok =>
              /\ holder = p
              /\ op[p].plan_id \in DOMAIN travel_plans
              /\ Len(resp[p].body[1].items[1]) = Cardinality(StoredItemsOf(op[p].plan_id))

C9_Witness ==
    \E p, q \in Procs :
        /\ p # q
        /\ pc[p] = "items"
        /\ StoredItemsOf(op[p].plan_id) # {}
        /\ pc[q] = "lock"

(* C10: get_plan answers NotFound exactly when no plan has the id;         *)
(* otherwise Ok with the stored metadata and with items present and equal  *)
(* to the stored items whose plan_id is the id, each once, none of another *)
(* plan.                                                                   *)
C10_GetPlan ==
    \A p \in Procs : AtRet(p, "get_plan") =>
        LET id == op[p].plan_id
        IN  IF id \notin DOMAIN travel_plans
            THEN resp[p] = Empty(NotFound)
            ELSE /\ resp[p].status = Ok
                 /\ resp[p].body # None
                 /\ LET plan == resp[p].body[1]
                    IN  /\ plan.id = Some(id)
                        /\ plan.name = travel_plans[id].name
                        /\ plan.start_date = travel_plans[id].start_date
                        /\ plan.end_date = travel_plans[id].end_date
                        /\ plan.items # None
                        /\ Len(plan.items[1]) = Cardinality(StoredItemsOf(id))
                        /\ {plan.items[1][k] : k \in 1..Len(plan.items[1])}
                              = {PlanItem(i, id, plan_items[i]) : i \in StoredItemsOf(id)}

C10_Witness ==
    \E p \in Procs :
        /\ AtRet(p, "get_plan")
        /\ resp[p].status = Ok
        /\ Len(resp[p].body[1].items[1]) > 0
        /\ \E i \in DOMAIN plan_items : plan_items[i].plan_id # op[p].plan_id

(* The position of a kind in the order search concatenates its sub-queries.*)
KindRank(kind) ==
    CASE kind = "place" -> 1 [] kind = "accommodation" -> 2 [] kind = "restaurant" -> 3
      [] OTHER -> 0

(* The hit is a row of the table its entity_type names.                    *)
HitFromItsStore(hit) ==
    /\ hit.entity_type \in Kinds
    /\ hit.id \in DOMAIN tables[hit.entity_type]
    /\ LET row == tables[hit.entity_type][hit.id]
       IN  /\ hit.name = row.name
           /\ hit.description = row.description
           /\ hit.location = row.location

(* C11: the hits of a search come in the order places, accommodations,     *)
(* restaurants, and each hit's entity_type names the table that holds the  *)
(* hit's row.                                                              *)
C11_SearchKindOrder ==
    \A p \in Procs : AtRet(p, "search_entities") /\ resp[p].status = Ok =>
        LET hits == resp[p].body[1]
        IN  /\ \A i, j \in 1..Len(hits) :
                  i < j => KindRank(hits[i].entity_type) <= KindRank(hits[j].entity_type)
            /\ \A i \in 1..Len(hits) : HitFromItsStore(hits[i])

C11_Witness ==
    \E p \in Procs :
        /\ AtRet(p, "search_entities")
        /\ resp[p].status = Ok
        /\ \A kind \in Kinds :
              \E i \in 1..Len(resp[p].body[1]) : resp[p].body[1][i].entity_type = kind
        /\ \E i \in DOMAIN tables["place"] :
              tables["place"][i] \notin {tables["restaurant"][j] : j \in DOMAIN tables["restaurant"]}

(* text contains q as a substring, letters compared without regard to case.*)
Contains(text, q) ==
    \E i \in 0..(Len(text) - Len(q)) :
        \A k \in 1..Len(q) : Fold(text[i + k]) = Fold(q[k])

(* C12 as stated: a search returns each stored entity once when its name   *)
(* or its description contains the query as a substring, and not at all    *)
(* otherwise.                                                              *)
C12_SearchIsSubstringMatch ==
    \A p \in Procs : AtRet(p, "search_entities") /\ resp[p].status = Ok =>
        LET hits == resp[p].body[1]
            q == op[p].body[1]
        IN  \A kind \in Kinds : \A id \in DOMAIN tables[kind] :
                LET row == tables[kind][id]
                    n == Cardinality({i \in 1..Len(hits) :
                            hits[i].entity_type = kind /\ hits[i].id = id})
                IN  IF \/ Contains(row.name, q)
                       \/ (row.description # None /\ Contains(row.description[1], q))
                    THEN n = 1
                    ELSE n = 0

(* C13 as stated: a search whose sub-query fails still ends as a response  *)
(* of the handler; the handler does not crash.                             *)
C13_SearchFailureIsAResult ==
    \A p \in Procs : op[p].kind = "search_entities" => pc[p] # "panic"

(* Worker p has listed the plans and answers Ok.                           *)
ListedPlans(p) ==
    /\ pc[p] = "ret"
    /\ op[p].kind \in {"get_plans", "main_get_plans"}
    /\ resp[p].status = Ok

(* C14 as stated: a list of the plans holds one entry per stored plan,     *)
(* each with items absent, and comes with a total equal to the number of   *)
(* stored plans.                                                           *)
C14_ListPlansWithTotal ==
    \A p \in Procs : ListedPlans(p) =>
        LET plans == resp[p].body[1]
        IN  /\ Len(plans) = Cardinality(DOMAIN travel_plans)
            /\ \A id \in DOMAIN travel_plans :
                  \E k \in 1..Len(plans) :
                      plans[k] = TravelPlan(id, travel_plans[id], None)
            /\ resp[p].header # None
            /\ resp[p].header[1].size = Cardinality(DOMAIN travel_plans)

(* C15 as stated: the plan add_plan returns carries the id storage         *)
(* assigned and no items, whatever the request body supplied.              *)
C15_CreatedPlanHasNoItems ==
    \A p \in Procs : AtRet(p, "add_plan") /\ resp[p].status = Created =>
        /\ resp[p].body[1].id # None
        /\ resp[p].body[1].id[1] \in DOMAIN travel_plans
        /\ travel_plans[resp[p].body[1].id[1]] = PlanRow(op[p].body[1])
        /\ resp[p].body[1].items = None

(* The plan has the metadata of the body b.                                *)
HasMetadata(plan, b) ==
    /\ plan.name = b.name
    /\ plan.start_date = b.start_date
    /\ plan.end_date = b.end_date

(* C16: an update_plan that answers Ok has stored the new name and dates   *)
(* under the id, so that get_plan reads them; it leaves every other plan   *)
(* and every item as they were and returns the plan with the id, the new   *)
(* metadata and items absent.                                              *)
C16_UpdatePlanFrame ==
    [][\A p \in Procs : Runs(p, "update_plan") /\ resp'[p].status = Ok =>
          LET id == op'[p].plan_id
              b == op'[p].body[1]
          IN  /\ DOMAIN travel_plans' = DOMAIN travel_plans
              /\ id \in DOMAIN travel_plans
              /\ HasMetadata(travel_plans'[id], b)
              /\ \A i \in DOMAIN travel_plans \ {id} : travel_plans'[i] = travel_plans[i]
              /\ plan_items' = plan_items
              /\ resp'[p].body[1].id = Some(id)
              /\ HasMetadata(resp'[p].body[1], b)
              /\ resp'[p].body[1].items = None]_vars

C16_Witness ==
    \E p \in Procs :
        /\ AtRet(p, "update_plan")
        /\ resp[p].status = Ok
        /\ StoredItemsOf(op[p].plan_id) # {}
        /\ op[p].body[1].items # None
        /\ \E i \in DOMAIN travel_plans : travel_plans[i] # travel_plans[op[p].plan_id]

(* C17: update_plan and delete_plan answer NotFound exactly when no plan   *)
(* has the id as their statement runs; so an update with the values        *)
(* already stored answers Ok, and the delete of a deleted id NotFound.     *)
C17_NotFoundIffNoRow ==
    [][\A p \in Procs :
          /\ Runs(p, "update_plan") =>
                /\ resp'[p].status \in {Ok, NotFound}
                /\ resp'[p].status = NotFound <=> op'[p].plan_id \notin DOMAIN travel_plans
          /\ Runs(p, "delete_plan") =>
                /\ resp'[p].status \in {NoContent, NotFound}
                /\ resp'[p].status = NotFound <=> op'[p].plan_id \notin DOMAIN travel_plans]_vars

C17_Witness ==
    \E p \in Procs :
        /\ AtRet(p, "delete_plan")
        /\ resp[p].status = NotFound
        /\ op[p].plan_id \in DOMAIN deleted

(* C18: after an update_plan_item that answers Ok, the items get_plan      *)
(* reads for the plan hold one entry with the item's id, and it has the    *)
(* new fields; every other stored item is as it was.                       *)
C18_UpdateItemRoundTrip ==
    /\ [](\A p \in Procs : AtRet(p, "update_plan_item") /\ resp[p].status = Ok =>
             LET r == op[p].body[1]
                 items == SelectPlanItems(op[p].plan_id, {})
                 found == {k \in 1..Len(items) : items[k].id = Some(op[p].item_id)}
             IN  /\ Cardinality(found) = 1
                 /\ \A k \in found : /\ items[k].entity_type = r.entity_type
                                     /\ items[k].entity_id = r.entity_id
                                     /\ items[k].visit_date = r.visit_date
                                     /\ items[k].notes = r.notes
                                     /\ items[k].plan_id = op[p].plan_id)
    /\ [][\A p \in Procs : Runs(p, "update_plan_item") /\ resp'[p].status = Ok =>
             /\ DOMAIN plan_items' = DOMAIN plan_items
             /\ \A i \in DOMAIN plan_items \ {op'[p].item_id} :
                   plan_items'[i] = plan_items[i]]_vars

C18_Witness ==
    \E p \in Procs :
        /\ AtRet(p, "update_plan_item")
        /\ resp[p].status = Ok
        /\ \E i \in StoredItemsOf(op[p].plan_id) :
              /\ i # op[p].item_id
              /\ plan_items[i] # plan_items[op[p].item_id]

(* C19: a delete_plan_item that answers NoContent removes that one item:   *)
(* the items get_plan reads for the plan no longer hold its id and hold    *)
(* every other item the plan had, and the plans and all other items are    *)
(* as they were.                                                           *)
C19_DeleteItemFrame ==
    [][\A p \in Procs, plan_id \in PlanIds, item_id \in ItemIds :
          /\ Runs(p, "delete_plan_item") /\ resp'[p].status = NoContent
          /\ op'[p].plan_id = plan_id /\ op'[p].item_id = item_id
          =>
          LET before == SelectPlanItems(plan_id, {})
              after == SelectPlanItems(plan_id, {})'
          IN  /\ PairMatches(item_id, plan_id)
              /\ \A k \in 1..Len(after) : after[k].id # Some(item_id)
              /\ {after[k] : k \in 1..Len(after)}
                    = {before[k] : k \in {j \in 1..Len(before) : before[j].id # Some(item_id)}}
              /\ Len(after) = Len(before) - 1
              /\ DOMAIN plan_items' = DOMAIN plan_items \ {item_id}
              /\ \A i \in DOMAIN plan_items' : plan_items'[i] = plan_items[i]
              /\ travel_plans' = travel_plans]_vars

C19_Witness ==
    \E p \in Procs :
        /\ AtRet(p, "delete_plan_item")
        /\ resp[p].status = NoContent
        /\ StoredItemsOf(op[p].plan_id) # {}
        /\ op[p].item_id \notin DOMAIN plan_items

(* A stored item names the row id of the store `kind`.                     *)
Referenced(kind, id) ==
    \E i \in DOMAIN plan_items :
        plan_items[i].entity_type = kind /\ plan_items[i].entity_id = id

(* C20: add_plan_item on a stored plan and update_plan_item on a stored    *)
(* item of the plan succeed whatever entity_type and entity_id they carry, *)
(* and the delete of a place, accommodation or restaurant succeeds when    *)
(* the row exists and changes no plan item, referenced or not.             *)
C20_EntityReferencesUnchecked ==
    [][\A p \in Procs :
          /\ Runs(p, "add_plan_item") /\ op'[p].plan_id \in DOMAIN travel_plans =>
                resp'[p].status = Created
          /\ Runs(p, "update_plan_item") /\ PairMatches(op'[p].item_id, op'[p].plan_id) =>
                resp'[p].status = Ok
          /\ \A kind \in Kinds : Runs(p, "delete_" \o kind) =>
                /\ plan_items' = plan_items
                /\ IF op'[p].plan_id \in DOMAIN tables[kind]
                   THEN /\ resp'[p] = Empty(NoContent)
                        /\ op'[p].plan_id \notin DOMAIN tables'[kind]
                   ELSE resp'[p] = Empty(NotFound)]_vars

C20_Witness ==
    \E p \in Procs :
        /\ AtRet(p, "delete_place")
        /\ resp[p].status = NoContent
        /\ Referenced("place", op[p].plan_id)

(* The ids of a sequence of items, in its order.                           *)
IdsOf(items) == [k \in 1..Len(items) |-> items[k].id[1]]

(* C21: get_plan returns the items of the plan in the order of their       *)
(* inserts, whatever additions, updates and deletions came before: the     *)
(* read query yields every plan's stored items earliest insert first, and  *)
(* an Ok response of get_plan carries them in that order.                  *)
C21_ItemsInInsertionOrder ==
    /\ \A plan_id \in PlanIds :
          IdsOf(SelectPlanItems(plan_id, {})) = Keep(added, StoredItemsOf(plan_id))
    /\ \A p \in Procs : AtRet(p, "get_plan") /\ resp[p].status = Ok =>
          IdsOf(resp[p].body[1].items[1]) = Keep(added, StoredItemsOf(op[p].plan_id))

C21_Witness ==
    \E p \in Procs :
        /\ AtRet(p, "get_plan")
        /\ resp[p].status = Ok
        /\ Len(resp[p].body[1].items[1]) = 2
        /\ resp[p].body[1].items[1][1].entity_type # resp[p].body[1].items[1][2].entity_type

PlansListed ==
    LET ids == RowidsAscending(DOMAIN travel_plans)
    IN  [k \in 1..Len(ids) |-> TravelPlan(ids[k], travel_plans[ids[k]], None)]

(* C23: each operation is atomic under every interleaving: the store       *)
(* changes only in the step of the worker that acquires the handle, while  *)
(* no other worker is inside its critical section, so the store changes in *)
(* the order of the acquisitions; a handler of two statements owns the     *)
(* handle between them, and what it read first and what it answers are     *)
(* what a run alone on the store as it is would read and answer.           *)
C23_SerialEquivalence ==
    /\ [](\A p \in Procs :
            /\ pc[p] \in {"count", "items"} => holder = p
            /\ pc[p] = "count" => acc[p] = PlansListed
            /\ pc[p] = "items" =>
                  /\ op[p].plan_id \in DOMAIN travel_plans
                  /\ acc[p] = TravelPlan(op[p].plan_id, travel_plans[op[p].plan_id],
                                         Some(<< >>))
            /\ AtRet(p, "get_plans") =>
                  /\ resp[p].body = Some(PlansListed)
                  /\ resp[p].header = Some(ContentRange(PlansListed,
                                                        Cardinality(DOMAIN travel_plans)))
            /\ AtRet(p, "main_get_plans") => resp[p].body = Some(PlansListed)
            /\ AtRet(p, "get_plan") /\ resp[p].status = Ok =>
                  resp[p].body = Some(TravelPlan(op[p].plan_id,
                                                 travel_plans[op[p].plan_id],
                                                 Some(SelectPlanItems(op[p].plan_id, {}))))
            /\ AtRet(p, "get_plan") /\ resp[p].status = NotFound =>
                  op[p].plan_id \notin DOMAIN travel_plans
            /\ AtRet(p, "add_plan") =>
                  /\ resp[p].body[1].id[1] \in DOMAIN travel_plans
                  /\ travel_plans[resp[p].body[1].id[1]] = PlanRow(op[p].body[1])
            /\ AtRet(p, "add_plan_item") /\ resp[p].status = Created =>
                  /\ resp[p].body[1].id[1] \in DOMAIN plan_items
                  /\ resp[p].body[1] = PlanItem(resp[p].body[1].id[1], op[p].plan_id,
                                                plan_items[resp[p].body[1].id[1]]))
    /\ [][<< travel_plans, plan_items, tables >>' # << travel_plans, plan_items, tables >> =>
            \E p \in Procs :
                /\ pc[p] = "lock" /\ holder = Free /\ holder' = p
                /\ \A q \in Procs \ {p} : ~InCriticalSection(q) /\ pc'[q] = pc[q]]_vars

C23_Witness ==
    \E p, q \in Procs :
        /\ p # q
        /\ pc[p] = "count"
        /\ Len(acc[p]) = 2
        /\ pc[q] = "lock"

(* The response carries the name, description and location of `row`.       *)
HasFields(entity, row) ==
    /\ entity.name = row.name
    /\ entity.description = row.description
    /\ entity.location = row.location

(* C24: for each of place, accommodation and restaurant: a create stores   *)
(* the body's name, description and location under the id it returns and a *)
(* get of a stored id returns the stored fields, so a get of the returned  *)
(* id returns the created ones; after a successful delete the id is not    *)
(* stored, and get, update and delete of an id not stored answer NotFound. *)
C24_LeafRoundTrips ==
    /\ [](\A p \in Procs, kind \in Kinds :
            /\ AtRet(p, "add_" \o kind) /\ resp[p].status = Created =>
                  /\ resp[p].body[1].id # None
                  /\ resp[p].body[1].id[1] \in DOMAIN tables[kind]
                  /\ HasFields(op[p].body[1], tables[kind][resp[p].body[1].id[1]])
                  /\ HasFields(resp[p].body[1], op[p].body[1])
            /\ AtRet(p, "get_" \o kind) =>
                  IF op[p].plan_id \in DOMAIN tables[kind]
                  THEN /\ resp[p].status = Ok
                       /\ resp[p].body[1].id = Some(op[p].plan_id)
                       /\ HasFields(resp[p].body[1], tables[kind][op[p].plan_id])
                  ELSE resp[p] = Empty(NotFound)
            /\ AtRet(p, "delete_" \o kind) /\ resp[p].status = NoContent =>
                  op[p].plan_id \notin DOMAIN tables[kind])
    /\ [][\A p \in Procs, kind \in Kinds :
            /\ (Runs(p, "update_" \o kind) \/ Runs(p, "delete_" \o kind))
            /\ op'[p].plan_id \notin DOMAIN tables[kind]
            => resp'[p] = Empty(NotFound) /\ tables' = tables]_vars

C24_Witness ==
    \E p \in Procs, kind \in Kinds :
        /\ AtRet(p, "get_" \o kind)
        /\ resp[p].status = Ok
        /\ resp[p].body[1].description # None
        /\ Cardinality(DOMAIN tables[kind]) = 2
        /\ \E i \in DOMAIN tables[kind] : tables[kind][i] # tables[kind][op[p].plan_id]

(* Every row of the table `kind` as a hit, in storage order.               *)
AllRowsAsHits(kind) ==
    LET ids == RowidsAscending(DOMAIN tables[kind])
    IN  [k \in 1..Len(ids) |->
           [id |-> ids[k], name |-> tables[kind][ids[k]].name, entity_type |-> kind,
            description |-> tables[kind][ids[k]].description,
            location |-> tables[kind][ids[k]].location]]

(* C25: a search with the empty query answers Ok with every stored place,  *)
(* then every stored accommodation, then every stored restaurant.          *)
C25_EmptyQueryReturnsAll ==
    \A p \in Procs : AtRet(p, "search_entities") /\ op[p].body = Some(<< >>) =>
        /\ resp[p].status = Ok
        /\ resp[p].body = Some(AllRowsAsHits("place") \o AllRowsAsHits("accommodation")
                                  \o AllRowsAsHits("restaurant"))

C25_Witness ==
    \E p \in Procs :
        /\ AtRet(p, "search_entities")
        /\ op[p].body = Some(<< >>)
        /\ \A kind \in Kinds : DOMAIN tables[kind] # {}
        /\ Cardinality(DOMAIN tables["place"]) = 2
        /\ Len(resp[p].body[1]) >= 4

(* C26: ids do not change and the items of a deleted plan do not come      *)
(* back: a delete_plan that answers NoContent leaves no item with the      *)
(* plan's id, a stored item keeps its id and its plan, an update of a plan *)
(* keeps the set of plan ids, rows enter plan_items only through           *)
(* add_plan_item, and a plan just created has no items even when storage   *)
(* gave it the id of a plan deleted before; so no later get_plan returns   *)
(* an item that the deleted plan had.                                      *)
C26_DeletedItemsStayGone ==
    /\ [](\A p \in Procs : AtRet(p, "add_plan") /\ resp[p].status = Created =>
            /\ resp[p].body[1].id # None
            /\ resp[p].body[1].id[1] \in DOMAIN travel_plans
            /\ StoredItemsOf(resp[p].body[1].id[1]) = {})
    /\ [][/\ \A p \in Procs, plan_id \in PlanIds :
                /\ Runs(p, "delete_plan")
                /\ op'[p].plan_id = plan_id
                /\ resp'[p].status = NoContent
                => \A i \in DOMAIN plan_items' : plan_items'[i].plan_id # plan_id
          /\ \A i \in DOMAIN plan_items \cap DOMAIN plan_items' :
                plan_items'[i].plan_id = plan_items[i].plan_id
          /\ DOMAIN plan_items' \ DOMAIN plan_items # {} =>
                \E p \in Procs : Runs(p, "add_plan_item")
          /\ \A p \in Procs : Runs(p, "update_plan") =>
                DOMAIN travel_plans' = DOMAIN travel_plans]_vars

C26_Witness ==
    \E p \in Procs :
        /\ AtRet(p, "add_plan")
        /\ resp[p].status = Created
        /\ resp[p].body[1].id[1] \in DOMAIN deleted
        /\ deleted[resp[p].body[1].id[1]] = Reassigned
        /\ plan_items # << >>

(* The requests on the plan aggregate.                                     *)
PlanRequests ==
    {"get_plans", "main_get_plans", "add_plan", "get_plan", "update_plan", "delete_plan",
     "add_plan_item", "update_plan_item", "delete_plan_item"}

(* C27: the statement of an operation on a plan or a plan item that ends   *)
(* in NotFound or in InternalServerError leaves every plan, every item and *)
(* every place, accommodation and restaurant as it was.                    *)
C27_FailureLeavesStore ==
    [][\A p \in Procs :
          /\ pc[p] \in {"lock", "count", "items"}
          /\ pc'[p] = "ret"
          /\ op'[p].kind \in PlanRequests
          /\ resp'[p].status \in {NotFound, InternalServerError}
          => /\ travel_plans' = travel_plans
             /\ plan_items' = plan_items
             /\ tables' = tables]_vars

C27_Witness ==
    \E p \in Procs :
        /\ AtRet(p, "delete_plan")
        /\ resp[p].status = InternalServerError
        /\ StoredItemsOf(op[p].plan_id) # {}
        /\ \E kind \in Kinds : DOMAIN tables[kind] # {}

(* C28: a delete_plan that answers NoContent removes the plan and the      *)
(* items whose plan_id is its id, and nothing else: every other plan and   *)
(* every item of another plan stays as it was, and so does every place,    *)
(* accommodation and restaurant.                                           *)
C28_DeletePlanFrame ==
    [][\A p \in Procs, plan_id \in PlanIds :
          /\ Runs(p, "delete_plan")
          /\ op'[p].plan_id = plan_id
          /\ resp'[p].status = NoContent
          => /\ plan_id \in DOMAIN travel_plans
             /\ DOMAIN travel_plans' = DOMAIN travel_plans \ {plan_id}
             /\ \A i \in DOMAIN travel_plans' : travel_plans'[i] = travel_plans[i]
             /\ DOMAIN plan_items' =
                   {i \in DOMAIN plan_items : plan_items[i].plan_id # plan_id}
             /\ \A i \in DOMAIN plan_items' : plan_items'[i] = plan_items[i]
             /\ tables' = tables]_vars

C28_Witness ==
    \E p \in Procs :
        /\ AtRet(p, "delete_plan")
        /\ resp[p].status = NoContent
        /\ deleted[op[p].plan_id] > 0
        /\ travel_plans # << >>
        /\ plan_items # << >>
        /\ \A kind \in Kinds : DOMAIN tables[kind] # {}

(* The requests that read.                                                 *)
ReadRequests ==
    {"get_plans", "main_get_plans", "get_plan", "search_entities"}
        \cup {"get_" \o kind : kind \in Kinds}
        \cup {"get_" \o kind \o "s" : kind \in Kinds}

(* C29: no statement of get_plans, get_plan, search_entities or of a list  *)
(* or get of an entity store changes the store, whether it is answered,    *)
(* fails or panics: plans, items, places, accommodations and restaurants   *)
(* are after it what they were before.                                     *)
C29_ReadsLeaveStore ==
    [][\A p \in Procs :
          /\ pc'[p] # pc[p]
          /\ pc[p] # "idle"
          /\ op'[p].kind \in ReadRequests
          => /\ travel_plans' = travel_plans
             /\ plan_items' = plan_items
             /\ tables' = tables]_vars

C29_Witness ==
    \E p \in Procs :
        /\ pc[p] = "panic"
        /\ op[p].kind = "search_entities"
        /\ plan_items # << >>
        /\ DOMAIN tables["place"] # {}

(* C30: no step changes the plan_id of a stored item, and an item is       *)
(* stored under its id until a delete removes it: an update_plan_item      *)
(* keeps the set of item ids and each item's plan, so an item cannot be    *)
(* moved to another plan, and an Ok response names the plan that owns the  *)
(* item.                                                                   *)
C30_ItemOwnershipFixed ==
    /\ [](\A p \in Procs : AtRet(p, "update_plan_item") /\ resp[p].status = Ok =>
            /\ PairMatches(op[p].item_id, op[p].plan_id)
            /\ resp[p].body[1].id = Some(op[p].item_id)
            /\ resp[p].body[1].plan_id = plan_items[op[p].item_id].plan_id)
    /\ [][/\ \A i \in DOMAIN plan_items \cap DOMAIN plan_items' :
                plan_items'[i].plan_id = plan_items[i].plan_id
          /\ \A p \in Procs : Runs(p, "update_plan_item") =>
                DOMAIN plan_items' = DOMAIN plan_items]_vars

C30_Witness ==
    \E p \in Procs :
        /\ AtRet(p, "update_plan_item")
        /\ resp[p].status = Ok
        /\ \E i \in DOMAIN plan_items :
              /\ plan_items[i].plan_id # op[p].plan_id
              /\ plan_items[i].plan_id \in DOMAIN travel_plans

(* C31: ids are distinct and a create returns the id of its own row, also  *)
(* among concurrent creates: an INSERT adds one row under a rowid no       *)
(* stored row of the table has and leaves the stored rows as they are;     *)
(* from its INSERT to its response the handler owns the handle, the        *)
(* connection's last insert rowid is the rowid of the row it inserted, and *)
(* no step changes that value; the response carries it.                    *)
C31_CreateReturnsOwnId ==
    /\ [](\A p \in Procs :
            /\ pc[p] = "rowid" => holder = p
            /\ pc[p] = "rowid" /\ op[p].kind = "add_plan" =>
                  /\ last_insert_rowid \in DOMAIN travel_plans
                  /\ travel_plans[last_insert_rowid] = PlanRow(acc[p])
            /\ pc[p] = "rowid" /\ op[p].kind = "add_plan_item" =>
                  /\ last_insert_rowid \in DOMAIN plan_items
                  /\ plan_items[last_insert_rowid] = ItemRow(op[p].plan_id, acc[p])
            /\ AtRet(p, "add_plan") /\ resp[p].status = Created =>
                  /\ resp[p].body[1].id = Some(last_insert_rowid)
                  /\ last_insert_rowid \in DOMAIN travel_plans
                  /\ travel_plans[last_insert_rowid] = PlanRow(op[p].body[1])
            /\ AtRet(p, "add_plan_item") /\ resp[p].status = Created =>
                  /\ resp[p].body[1].id = Some(last_insert_rowid)
                  /\ last_insert_rowid \in DOMAIN plan_items
                  /\ plan_items[last_insert_rowid] = ItemRow(op[p].plan_id, op[p].body[1]))
    /\ [][\A p \in Procs :
            /\ pc[p] = "rowid" => last_insert_rowid' = last_insert_rowid
            /\ pc[p] = "lock" /\ pc'[p] = "rowid" /\ op'[p].kind = "add_plan" =>
                  /\ last_insert_rowid' \notin DOMAIN travel_plans
                  /\ DOMAIN travel_plans' = DOMAIN travel_plans \cup {last_insert_rowid'}
                  /\ \A i \in DOMAIN travel_plans : travel_plans'[i] = travel_plans[i]
            /\ pc[p] = "lock" /\ pc'[p] = "rowid" /\ op'[p].kind = "add_plan_item" =>
                  /\ last_insert_rowid' \notin DOMAIN plan_items
                  /\ DOMAIN plan_items' = DOMAIN plan_items \cup {last_insert_rowid'}
                  /\ \A i \in DOMAIN plan_items : plan_items'[i] = plan_items[i]]_vars

C31_Witness ==
    \E p, q \in Procs :
        /\ p # q
        /\ pc[p] = "rowid"
        /\ op[p].kind = "add_plan"
        /\ pc[q] = "lock"
        /\ last_insert_rowid \in DOMAIN deleted
        /\ plan_items # << >>

(* C32: a get_plan that directly follows a successful add_plan returns the *)
(* created name and dates and an empty list of items: when add_plan has    *)
(* answered Created the plan is stored under the returned id with the      *)
(* body's name and dates and no stored item has that id as plan_id,        *)
(* whatever was deleted before and whatever items the body supplied; the   *)
(* return of a handler and the arrival of a request leave the store as it  *)
(* is; and a get_plan of a stored plan without items answers Ok with the   *)
(* stored name and dates and items present and empty.                      *)
C32_GetAfterCreate ==
    /\ [](\A p \in Procs :
            /\ AtRet(p, "add_plan") /\ resp[p].status = Created =>
                  /\ resp[p].body[1].id # None
                  /\ RowidsAscending(PlanRowsWhereId(resp[p].body[1].id[1]))
                        = << resp[p].body[1].id[1] >>
                  /\ HasMetadata(travel_plans[resp[p].body[1].id[1]], op[p].body[1])
                  /\ SelectPlanItems(resp[p].body[1].id[1], {}) = << >>
            /\ /\ AtRet(p, "get_plan")
               /\ op[p].plan_id \in DOMAIN travel_plans
               /\ StoredItemsOf(op[p].plan_id) = {}
               => resp[p] = Json(Ok, TravelPlan(op[p].plan_id, travel_plans[op[p].plan_id],
                                                Some(<< >>))))
    /\ [][\A p \in Procs : pc[p] \in {"ret", "idle"} /\ pc'[p] # pc[p] =>
            /\ travel_plans' = travel_plans
            /\ plan_items' = plan_items]_vars

C32_Witness ==
    \E p \in Procs :
        /\ AtRet(p, "add_plan")
        /\ resp[p].status = Created
        /\ op[p].body[1].items # None
        /\ resp[p].body[1].id[1] \in DOMAIN deleted
        /\ deleted[resp[p].body[1].id[1]] = Reassigned

(* C33 as stated: under fair scheduling every operation that has started   *)
(* completes with a response, and the handle is free again and again.      *)
C33_EveryOperationCompletes ==
    /\ \A p \in Procs : (pc[p] = "lock") ~> (pc[p] = "ret")
    /\ []<>(holder = Free)

(* C34: get_plans of travel_plans.rs reads the plan list and the total     *)
(* count inside one critical section: it owns the handle between the two   *)
(* statements, and when no row read fails the total it reports equals the  *)
(* number of plans in the list it returns, whatever add_plan and           *)
(* delete_plan of other workers run before, between the calls or after.    *)
C34_TotalMatchesList ==
    \A p \in Procs :
        /\ pc[p] = "count" /\ op[p].kind = "get_plans" => holder = p
        /\ AtRet(p, "get_plans") /\ resp[p].status = Ok =>
              /\ resp[p].header # None
              /\ resp[p].header[1].size = Len(resp[p].body[1])

C34_Witness ==
    \E p, q \in Procs :
        /\ p # q
        /\ AtRet(p, "get_plans")
        /\ resp[p].status = Ok
        /\ resp[p].header[1].size = 1
        /\ Len(resp[p].body[1]) = 1
        /\ DOMAIN deleted # {}
        /\ pc[q] = "lock"

(* What get_plans of travel_plans.rs answers on the store as it is when    *)
(* storage answers both of its statements.                                 *)
get_plans_response ==
    [status |-> Ok,
     header |-> Some(ContentRange(PlansListed, Cardinality(DOMAIN travel_plans))),
     body |-> Some(PlansListed)]

(* C35 as stated: the handlers main.rs defines and routes answer as the    *)
(* handlers of the same name in travel_plans.rs and search.rs do on the    *)
(* same store: the get_plans of main.rs returns the response the get_plans *)
(* of travel_plans.rs returns (the other handlers are the same code).      *)
C35_MainHandlersAnswerAlike ==
    \A p \in Procs :
        /\ AtRet(p, "get_plans") /\ resp[p].status = Ok => resp[p] = get_plans_response
        /\ AtRet(p, "main_get_plans") => resp[p] = get_plans_response

(* C36: the Content-Range of get_plans (travel_plans.rs) is the unit       *)
(* "plans", the start 0, the end 0 when the returned list is empty and     *)
(* n - 1 when it holds n >= 1 plans, and the stored number of plans as the *)
(* size; the end is never negative.                                        *)
C36_ContentRangeValue ==
    \A p \in Procs : AtRet(p, "get_plans") /\ resp[p].status = Ok =>
        LET n == Len(resp[p].body[1])
            range == resp[p].header[1]
        IN  /\ resp[p].header # None
            /\ range.unit = "plans"
            /\ range.first = 0
            /\ n = 0 => range.last = 0
            /\ n >= 1 => range.last = n - 1
            /\ range.last >= 0
            /\ range.size = Cardinality(DOMAIN travel_plans)

C36_Witness ==
    \E p \in Procs :
        /\ AtRet(p, "get_plans")
        /\ resp[p].status = Ok
        /\ Len(resp[p].body[1]) = 0
        /\ resp[p].header[1].last = 0
        /\ resp[p].header[1].size = 2

====
